---- MODULE Spec2Model ----
(***************************************************************************)
(* Model of utils_nlp/common/pytorch_utils.py (get_device,                 *)
(* move_model_to_device, dataloader_from_dataset, compute_training_steps)  *)
(* and of BERTSentenceEncoder.pool in utils_nlp/models/bert/               *)
(* extract_features.py.                                                    *)
(*                                                                         *)
(* Every function is one action: the action draws the arguments from a     *)
(* bounded set, evaluates the function as the code does and records the    *)
(* arguments in args and the outcome (a returned value or a raised error)  *)
(* in res.  Return brings the caller back to idle.                         *)
(***************************************************************************)
EXTENDS Integers, Sequences, FiniteSets, TLC

VARIABLES
    device_count,   \* torch.cuda.device_count(): accelerators physically present
    op,             \* the function whose call is recorded, or "idle"
    args,           \* the arguments of that call
    res,            \* its outcome
    held,           \* the model the caller holds and passes to the next placement
    calls           \* number of placement calls made on held so far

vars == <<device_count, op, args, res, held, calls>>

(***************************************************************************)
(* Bounds of the explored inputs.                                          *)
(***************************************************************************)
MaxGpus == 3
MaxLen == 4
MaxEpochs == 2
MaxAccum == 3
MaxSteps == 2
MaxBatch == 3
MaxCalls == 3
MaxRows == 3      \* rows of a table of hidden states

(***************************************************************************)
(* Python values.                                                          *)
(***************************************************************************)
\* An optional argument is the empty set (None) or a singleton.
None == {}
Some(x) == {x}
Val(o) == CHOOSE x \in o : TRUE

Min(a, b) == IF a <= b THEN a ELSE b
Max(a, b) == IF a >= b THEN a ELSE b

\* Python's a // b on integers: the floor of a / b, for either sign of b.
FloorDiv(a, b) ==
    IF b > 0 THEN a \div b ELSE (0 - a) \div (0 - b)

\* list(range(n))
Range(n) == [i \in 1..Max(n, 0) |-> i - 1]

NoArgs == [none |-> TRUE]
NoRes == [status |-> "none"]
Raise(e) == [status |-> "error", error |-> e]
Ok(v) == [status |-> "ok", value |-> v]

(***************************************************************************)
(* Devices.  isdev is isinstance(device, torch.device); a value with       *)
(* isdev = FALSE is a device name passed as a plain string.                *)
(***************************************************************************)
CpuDevice == [isdev |-> TRUE, type |-> "cpu", index |-> -1]
CudaDevice == [isdev |-> TRUE, type |-> "cuda", index |-> -1]
CudaIndexed(i) == [isdev |-> TRUE, type |-> "cuda", index |-> i]
DeviceName(t) == [isdev |-> FALSE, type |-> t, index |-> -1]

\* torch.cuda.is_available()
cuda_is_available(count) == count > 0

(***************************************************************************)
(* get_device(num_gpus, local_rank)                                        *)
(***************************************************************************)
\* line 23: torch.cuda.set_device(local_rank) succeeds only for an
\* accelerator that is present (ranks 0..count-1); for any other rank it
\* raises (invalid device ordinal, or no CUDA device at all).
set_device_ok(local_rank, count) == local_rank >= 0 /\ local_rank < count

\* A resolver that trusts the request and never asks the hardware.
get_deviceIgnoringHardware(num_gpus, local_rank, count) ==
    IF local_rank = -1
    THEN LET n == IF num_gpus # None THEN Val(num_gpus) ELSE count
             device == IF num_gpus = None \/ n > 0
                       THEN CudaDevice ELSE CpuDevice
         IN  Ok([device |-> device, num_gpus |-> n])
    ELSE IF ~set_device_ok(local_rank, count)
         THEN Raise("RuntimeError")
         ELSE Ok([device |-> CudaIndexed(local_rank), num_gpus |-> 1])

get_device(num_gpus, local_rank, count) ==
    IF local_rank = -1
    THEN LET n == IF num_gpus # None THEN Min(Val(num_gpus), count) ELSE count
             device == IF cuda_is_available(count) /\ n > 0
                       THEN CudaDevice ELSE CpuDevice
         IN  Ok([device |-> device, num_gpus |-> n])
    ELSE IF ~set_device_ok(local_rank, count)
         THEN Raise("RuntimeError")   \* line 23 raises, line 28 is not reached
         ELSE Ok([device |-> CudaIndexed(local_rank), num_gpus |-> 1])

(***************************************************************************)
(* dataloader_from_dataset(ds, batch_size, num_gpus, shuffle, distributed) *)
(***************************************************************************)
SelectSampler(shuffle, distributed) ==
    IF distributed THEN "DistributedSampler"
    ELSE IF shuffle THEN "RandomSampler" ELSE "SequentialSampler"

\* The scaling without the floor of one accelerator.
EffectiveBatchSizeNoFloor(batch_size, n) == batch_size * n

\* line 100
EffectiveBatchSize(batch_size, n) == batch_size * Max(1, n)

dataloader_from_dataset(batch_size, num_gpus, shuffle, distributed, count) ==
    LET n == IF num_gpus = None THEN count ELSE Val(num_gpus)
    IN  Ok([sampler |-> SelectSampler(shuffle, distributed),
            batch_size |-> EffectiveBatchSize(batch_size, n)])

(***************************************************************************)
(* compute_training_steps(dataloader, num_epochs, max_steps,               *)
(*                        gradient_accumulation_steps)                     *)
(* A loader is [has_len, len]: len(dataloader) raises when has_len is      *)
(* FALSE (an iterable-style loader).                                       *)
(***************************************************************************)
\* lines 127-130
DatasetLength(dataloader) ==
    IF dataloader.has_len THEN dataloader.len ELSE -1

\* A test that lets the loader length win over a positive override.
UseLengthIgnoringOverride(max_steps, dataset_length, num_epochs) ==
    dataset_length # -1 /\ num_epochs > 0

\* lines 131-132: is max_steps taken from the loader length?
UseLength(max_steps, dataset_length, num_epochs) ==
    max_steps <= 0 /\ dataset_length # -1 /\ num_epochs > 0

\* The division applied to the total number of batches of all epochs.
StepsFromLengthDivideLast(dataset_length, accum, num_epochs) ==
    FloorDiv(dataset_length * num_epochs, accum)

\* line 133
StepsFromLength(dataset_length, accum, num_epochs) ==
    FloorDiv(dataset_length, accum) * num_epochs

\* The function without its final check.
StepsOutcomeNoRaise(steps) == Ok(steps)

\* lines 134-136
StepsOutcome(steps) ==
    IF steps <= 0 THEN Raise("Exception") ELSE Ok(steps)

compute_training_steps(dataloader, num_epochs, max_steps, accum) ==
    LET dataset_length == DatasetLength(dataloader)
    IN  IF UseLength(max_steps, dataset_length, num_epochs)
        THEN IF accum = 0
             THEN Raise("ZeroDivisionError")
             ELSE StepsOutcome(StepsFromLength(dataset_length, accum,
                                               num_epochs))
        ELSE StepsOutcome(max_steps)

(***************************************************************************)
(* Models (torch.nn.Module values).  A plain module records the device its *)
(* parameters are on; a parallel wrapper records the module it wraps and   *)
(* its device ids.                                                         *)
(***************************************************************************)
BaseModel == [kind |-> "Module", device |-> CpuDevice]

DataParallel(m, ids) ==
    [kind |-> "DataParallel", module |-> m, device_ids |-> ids]

DistributedDataParallel(m, rank) ==
    [kind |-> "DistributedDataParallel", module |-> m, device_ids |-> <<rank>>]

\* model.to(device): moves the parameters, which live in the innermost module
RECURSIVE To(_, _)
To(m, d) ==
    IF m.kind = "Module"
    THEN [m EXCEPT !.device = d]
    ELSE [m EXCEPT !.module = To(m.module, d)]

\* number of parallel wrappers around the innermost module
RECURSIVE Depth(_)
Depth(m) == IF m.kind = "Module" THEN 0 ELSE 1 + Depth(m.module)

RECURSIVE Innermost(_)
Innermost(m) == IF m.kind = "Module" THEN m ELSE Innermost(m.module)

(***************************************************************************)
(* move_model_to_device(model, device, num_gpus, gpu_ids, local_rank)      *)
(***************************************************************************)
\* A placement that wraps whatever it is given.
UnwrapNothing(model) == model

\* lines 56-58
Unwrap(model) ==
    IF model.kind = "DataParallel" THEN model.module ELSE model

\* A placement that accepts every requested count.
InvalidCountNever(num_gpus) == FALSE

\* lines 66-67
InvalidCount(num_gpus) == num_gpus # None /\ Val(num_gpus) < 1

\* lines 72-74: the device ids the wrapper is given
ResolveGpuIds(num_gpus, gpu_ids, num_cuda_devices) ==
    IF gpu_ids = None
    THEN Range(IF num_gpus = None THEN num_cuda_devices
               ELSE Min(Val(num_gpus), num_cuda_devices))
    ELSE Val(gpu_ids)

\* lines 75-76
WrapDataParallel(model, ids) ==
    IF Len(ids) > 1 THEN DataParallel(model, ids) ELSE model

move_model_to_device(model, device, num_gpus, gpu_ids, local_rank, count) ==
    IF ~device.isdev
    THEN Raise("ValueError")
    ELSE LET m == Unwrap(model)
         IN  IF local_rank # -1
             THEN Raise("NameError")   \* line 61 reads self, which is not defined
             ELSE IF device.type = "cuda"
                  THEN IF InvalidCount(num_gpus)
                       THEN Raise("ValueError")
                       ELSE IF count < 1
                            THEN Raise("Exception")
                            ELSE Ok(To(WrapDataParallel(m,
                                        ResolveGpuIds(num_gpus, gpu_ids,
                                                      count)), device))
                  ELSE Ok(To(m, device))

(***************************************************************************)
(* BERTSentenceEncoder.pool(df, pooling_strategy)                          *)
(* df is a sequence of rows [text_index, layer_index, values]; the token   *)
(* column is left out, pool never reads it.  A number of a pooled vector   *)
(* is written as the fraction [num, den] in lowest terms that it equals.   *)
(***************************************************************************)
\* The positions of an activation vector: the 768 of np.reshape(..., 768),
\* scaled down to two.
Components == {1, 2}

RECURSIVE GCD(_, _)
GCD(a, b) == IF b = 0 THEN a ELSE GCD(b, a % b)

Frac(n, d) ==
    LET g == GCD(IF n < 0 THEN 0 - n ELSE n, d)
    IN  [num |-> n \div g, den |-> d \div g]

AsFrac(v) == [c \in 1..Len(v) |-> Frac(v[c], 1)]

(***************************************************************************)
(* float32 arithmetic (torch.tensor(values, dtype=torch.float)): a number  *)
(* keeps SignificandBits significant bits, rounded to nearest, ties to     *)
(* even.  Activations are integers here, so sums are integers too; only    *)
(* the division of the mean leaves the integers.                           *)
(***************************************************************************)
SignificandBits == 24

RECURSIVE Pow2(_)
Pow2(k) == IF k = 0 THEN 1 ELSE 2 * Pow2(k - 1)

\* significands lie in MinSignificand .. MaxSignificand - 1
MaxSignificand == Pow2(SignificandBits)
MinSignificand == Pow2(SignificandBits - 1)

\* a / b rounded to an integer, to nearest, ties to even
RoundTiesEven(a, b) ==
    IF 2 * (a % b) > b \/ (2 * (a % b) = b /\ (a \div b) % 2 = 1)
    THEN (a \div b) + 1
    ELSE a \div b

\* the float32 nearest to a / n, for a > 0 and n > 0: the quotient is
\* scaled by the power of two up / down that brings it to SignificandBits
\* bits, rounded there and scaled back
RECURSIVE RoundNearestEven(_, _, _, _)
RoundNearestEven(a, n, up, down) ==
    IF (a * up) \div (n * down) >= MaxSignificand
    THEN RoundNearestEven(a, n, up, down * 2)
    ELSE IF (a * up) \div (n * down) < MinSignificand
    THEN RoundNearestEven(a, n, up * 2, down)
    ELSE Frac(RoundTiesEven(a * up, n * down) * down, up)

\* the float32 nearest to s / n, for n > 0
Float32Div(s, n) ==
    IF s = 0 THEN Frac(0, 1)
    ELSE IF s > 0 THEN RoundNearestEven(s, n, 1, 1)
    ELSE LET f == RoundNearestEven(0 - s, n, 1, 1)
         IN  [num |-> 0 - f.num, den |-> f.den]

\* an integer converted to float32 (again an integer)
Float32(v) == Float32Div(v, 1).num

\* The values column of a group, x.values, is summed in the row order of
\* df, every partial sum rounded to float32.
RECURSIVE ColumnSum(_, _)
ColumnSum(vs, c) ==
    IF vs = <<>> THEN 0
    ELSE Float32(ColumnSum(SubSeq(vs, 1, Len(vs) - 1), c)
                    + Float32(vs[Len(vs)][c]))

RECURSIVE ColumnMax(_, _)
ColumnMax(vs, c) ==
    IF Len(vs) = 1 THEN Float32(vs[1][c])
    ELSE Max(Float32(vs[1][c]), ColumnMax(Tail(vs), c))

\* lines 162-170
max_pool(vs) == [c \in Components |-> Frac(ColumnMax(vs, c), 1)]

\* lines 172-181: torch.mean of the float32 tensor, the sum divided by the
\* number of rows
mean_pool(vs) == [c \in Components |-> Float32Div(ColumnSum(vs, c), Len(vs))]

\* lines 183-190: the first row as it is, no conversion to float32
cls_pool(vs) == AsFrac(vs[1])

\* A dispatch that falls back to the mean for an unknown strategy.
PoolFuncDefaultMean(pooling_strategy) ==
    IF pooling_strategy = "max" THEN Ok("max_pool")
    ELSE IF pooling_strategy = "cls" THEN Ok("cls_pool")
    ELSE Ok("mean_pool")

\* lines 192-202.  An unknown strategy reaches line 200, where the name
\* ValuerError is not defined: evaluating it raises NameError, and so does
\* the except clause of line 201 that names it again.
PoolFunc(pooling_strategy) ==
    IF pooling_strategy = "max" THEN Ok("max_pool")
    ELSE IF pooling_strategy = "mean" THEN Ok("mean_pool")
    ELSE IF pooling_strategy = "cls" THEN Ok("cls_pool")
    ELSE Raise("NameError")

ApplyPoolFunc(f, vs) ==
    IF f = "max_pool" THEN max_pool(vs)
    ELSE IF f = "mean_pool" THEN mean_pool(vs)
    ELSE cls_pool(vs)

\* A grouping by document alone.
GroupKeyDocumentOnly(r) == <<r.text_index, -1>>

\* line 204: groupby(["text_index", "layer_index"])
GroupKey(r) == <<r.text_index, r.layer_index>>

KeyLess(a, b) == a[1] < b[1] \/ (a[1] = b[1] /\ a[2] < b[2])

\* the group keys in groupby's sorted order
RECURSIVE SortedKeys(_)
SortedKeys(ks) ==
    IF ks = {} THEN <<>>
    ELSE LET k == CHOOSE x \in ks : \A y \in ks : x = y \/ KeyLess(x, y)
         IN  <<k>> \o SortedKeys(ks \ {k})

RECURSIVE GroupValues(_, _)
GroupValues(df, k) ==
    IF df = <<>> THEN <<>>
    ELSE (IF GroupKey(df[1]) = k THEN <<df[1].values>> ELSE <<>>)
            \o GroupValues(Tail(df), k)

\* line 204: group, apply the pooling function, reset_index
GroupApply(df, f) ==
    LET ks == SortedKeys({GroupKey(df[i]) : i \in 1..Len(df)})
    IN  [g \in 1..Len(ks) |->
            [text_index |-> ks[g][1], layer_index |-> ks[g][2],
             values |-> ApplyPoolFunc(f, GroupValues(df, ks[g]))]]

pool(df, pooling_strategy) ==
    LET pool_func == PoolFunc(pooling_strategy)
    IN  IF pool_func.status = "error"
        THEN pool_func
        ELSE Ok(GroupApply(df, pool_func.value))

(***************************************************************************)
(* Input sets.                                                             *)
(***************************************************************************)
GpuCounts == {None} \cup {Some(n) : n \in -1..MaxGpus + 1}
LocalRanks == -1..MaxGpus - 1
Loaders ==
    [has_len : {TRUE}, len : 0..MaxLen] \cup [has_len : {FALSE}, len : {0}]
Devices ==
    {CpuDevice, CudaDevice, CudaIndexed(0), DeviceName("cpu"),
     DeviceName("cuda")}
Documents == {0, 1}
Layers == {-2, -1}
\* Activation vectors: small values, values at the edge of float32's
\* integer range (2^24) and one value float32 cannot hold (2^24 + 1).
Vectors ==
    {<<MaxSignificand, -1>>, <<0 - MaxSignificand, 2>>,
     <<1, MaxSignificand + 1>>}
Rows == [text_index : Documents, layer_index : Layers, values : Vectors]
Tables == UNION {[1..n -> Rows] : n \in 1..MaxRows}
Strategies == {"max", "mean", "cls", "sum"}
\* explicit device id lists name devices that are present
GpuIdLists(count) == {None} \cup {Some(Range(k)) : k \in 0..count}

(***************************************************************************)
(* Actions.                                                                *)
(***************************************************************************)
Idle == op = "idle"

GetDevice ==
    /\ Idle
    /\ \E num_gpus \in GpuCounts, local_rank \in LocalRanks :
          /\ op' = "get_device"
          /\ args' = [num_gpus |-> num_gpus, local_rank |-> local_rank]
          /\ res' = get_device(num_gpus, local_rank, device_count)
    /\ UNCHANGED <<device_count, held, calls>>

DataloaderFromDataset ==
    /\ Idle
    /\ \E batch_size \in 1..MaxBatch, num_gpus \in GpuCounts,
          shuffle \in BOOLEAN, distributed \in BOOLEAN :
          /\ op' = "dataloader_from_dataset"
          /\ args' = [batch_size |-> batch_size, num_gpus |-> num_gpus,
                      shuffle |-> shuffle, distributed |-> distributed]
          /\ res' = dataloader_from_dataset(batch_size, num_gpus, shuffle,
                                            distributed, device_count)
    /\ UNCHANGED <<device_count, held, calls>>

ComputeTrainingSteps ==
    /\ Idle
    /\ \E dataloader \in Loaders, num_epochs \in -1..MaxEpochs,
          max_steps \in -1..MaxSteps, accum \in -1..MaxAccum :
          /\ op' = "compute_training_steps"
          /\ args' = [dataloader |-> dataloader, num_epochs |-> num_epochs,
                      max_steps |-> max_steps,
                      gradient_accumulation_steps |-> accum]
          /\ res' = compute_training_steps(dataloader, num_epochs, max_steps,
                                           accum)
    /\ UNCHANGED <<device_count, held, calls>>

Return ==
    /\ ~Idle
    /\ op' = "idle"
    /\ args' = NoArgs
    /\ res' = NoRes
    /\ UNCHANGED <<device_count, held, calls>>

\* The caller keeps the returned model and passes it to its next placement
\* call (self.model = move_to_device(self.model, ...) in the encoder).
MoveModelToDevice ==
    /\ Idle
    /\ calls < MaxCalls
    /\ \E device \in Devices, num_gpus \in GpuCounts,
          gpu_ids \in GpuIdLists(device_count), local_rank \in LocalRanks :
          LET r == move_model_to_device(held, device, num_gpus, gpu_ids,
                                        local_rank, device_count)
          IN  /\ op' = "move_model_to_device"
              /\ args' = [model |-> held, device |-> device,
                          num_gpus |-> num_gpus, gpu_ids |-> gpu_ids,
                          local_rank |-> local_rank]
              /\ res' = r
              /\ held' = IF r.status = "ok" THEN r.value ELSE held
    /\ calls' = calls + 1
    /\ UNCHANGED device_count

Pool ==
    /\ Idle
    /\ \E df \in Tables, pooling_strategy \in Strategies :
          /\ op' = "pool"
          /\ args' = [df |-> df, pooling_strategy |-> pooling_strategy]
          /\ res' = pool(df, pooling_strategy)
    /\ UNCHANGED <<device_count, held, calls>>

\* df with rows i and j exchanged
SwapRows(df, i, j) ==
    [n \in 1..Len(df) |-> IF n = i THEN df[j] ELSE IF n = j THEN df[i] ELSE df[n]]

\* The caller pools the same rows again, with two rows of one
\* (document, layer) group exchanged.
PoolReordered ==
    /\ op = "pool"
    /\ \E i \in 1..Len(args.df), j \in 1..Len(args.df) :
          /\ i < j
          /\ args.df[i].text_index = args.df[j].text_index
          /\ args.df[i].layer_index = args.df[j].layer_index
          /\ args.df[i].values # args.df[j].values
          /\ args' = [args EXCEPT !.df = SwapRows(args.df, i, j)]
          /\ res' = pool(args'.df, args.pooling_strategy)
    /\ UNCHANGED <<device_count, op, held, calls>>

Init ==
    /\ device_count \in 0..MaxGpus
    /\ op = "idle"
    /\ args = NoArgs
    /\ res = NoRes
    /\ held = BaseModel
    /\ calls = 0

Next ==
    \/ GetDevice
    \/ DataloaderFromDataset
    \/ ComputeTrainingSteps
    \/ Return

Spec == Init /\ [][Next]_vars

\* Placement calls chained on the model the caller holds.
NextPlacement ==
    \/ MoveModelToDevice
    \/ Return

SpecPlacement == Init /\ [][NextPlacement]_vars

\* Pooling of tables of hidden states.
NextPool ==
    \/ Pool
    \/ PoolReordered
    \/ Return

\* pool works on host arrays and reads no accelerator state: one device
\* count stands for all of them.
InitPool == Init /\ device_count = 0

SpecPool == InitPool /\ [][NextPool]_vars

(***************************************************************************)
(* Properties of compute_training_steps.                                   *)
(***************************************************************************)
StepsCalled == op = "compute_training_steps"

\* C1: a positive max_steps override is returned unchanged, whatever the
\* loader (its length known or not), the epochs and the accumulation factor.
C1_OverrideReturned ==
    (StepsCalled /\ args.max_steps > 0) => res = Ok(args.max_steps)

C1_Witness ==
    /\ StepsCalled
    /\ args.max_steps > 0
    /\ ~args.dataloader.has_len
    /\ args.gradient_accumulation_steps = 0
    /\ res = Ok(args.max_steps)

\* The case C2 is about: the length is known, the epoch count is positive
\* and there is no positive override.
StepsFromLoader ==
    /\ StepsCalled
    /\ args.dataloader.has_len
    /\ args.num_epochs > 0
    /\ args.max_steps <= 0

FloorProduct ==
    FloorDiv(args.dataloader.len, args.gradient_accumulation_steps)
        * args.num_epochs

\* C2 as stated: with a known length L, E > 0 epochs, any accumulation
\* factor A and no positive override, the call returns floor(L / A) * E.
C2_AsStated ==
    StepsFromLoader =>
        /\ args.gradient_accumulation_steps # 0
        /\ res = Ok(FloorProduct)

\* C2 amended: in that case the call returns floor(L / A) * E when A is not
\* zero and that product is positive, and raises an error otherwise.
C2_FloorProductOrError ==
    StepsFromLoader =>
        IF args.gradient_accumulation_steps # 0 /\ FloorProduct > 0
        THEN res = Ok(FloorProduct)
        ELSE res.status = "error"

C2_Witness ==
    /\ StepsFromLoader
    /\ args.dataloader.len = 3
    /\ args.gradient_accumulation_steps = 2
    /\ args.num_epochs = 2
    /\ res = Ok(2)

\* No positive step count can be determined: there is no positive override
\* and the loader gives none (length unknown, no positive epoch count, or a
\* computed value that is not positive).
NoPositiveCount ==
    /\ args.max_steps <= 0
    /\ \/ ~args.dataloader.has_len
       \/ args.num_epochs <= 0
       \/ args.gradient_accumulation_steps = 0
       \/ FloorProduct <= 0

\* C3: the call raises an error exactly when no positive step count can be
\* determined, so every returned value is a positive integer.
C3_ErrorIffNoPositiveCount ==
    StepsCalled =>
        /\ (res.status = "error") <=> NoPositiveCount
        /\ res.status \in {"ok", "error"}
        /\ res.status = "ok" => (res.value \in Nat /\ res.value > 0)

C3_Witness ==
    /\ StepsCalled
    /\ args.dataloader.has_len
    /\ args.num_epochs > 0
    /\ args.max_steps <= 0
    /\ args.gradient_accumulation_steps > args.dataloader.len
    /\ res.status = "error"

(***************************************************************************)
(* Properties of get_device and dataloader_from_dataset.                   *)
(***************************************************************************)
\* C4: a non-distributed call made while no accelerator is available
\* returns the CPU device, for every requested count.
C4_CpuWhenNoAccelerator ==
    (op = "get_device" /\ args.local_rank = -1 /\ device_count = 0) =>
        (res.status = "ok" /\ res.value.device = CpuDevice)

C4_Witness ==
    /\ op = "get_device"
    /\ args.local_rank = -1
    /\ device_count = 0
    /\ args.num_gpus = Some(2)
    /\ res.status = "ok"
    /\ res.value.device = CpuDevice

\* The case C5 is about: a requested count N from 0 up to the available
\* count.
LoaderWithinAvailable ==
    /\ op = "dataloader_from_dataset"
    /\ args.num_gpus # None
    /\ Val(args.num_gpus) >= 0
    /\ Val(args.num_gpus) <= device_count

\* C5 as stated: the batch size of the loader is the per-accelerator batch
\* size times N, N = 0 included.
C5_AsStated ==
    LoaderWithinAvailable =>
        res.value.batch_size = args.batch_size * Val(args.num_gpus)

\* C5 amended: the batch size is the per-accelerator batch size times N for
\* N >= 1, and the per-accelerator batch size itself for N = 0.
C5_BatchTimesCountAtLeastOne ==
    LoaderWithinAvailable =>
        /\ res.status = "ok"
        /\ Val(args.num_gpus) >= 1 =>
              res.value.batch_size = args.batch_size * Val(args.num_gpus)
        /\ Val(args.num_gpus) = 0 =>
              res.value.batch_size = args.batch_size

C5_Witness ==
    /\ LoaderWithinAvailable
    /\ Val(args.num_gpus) = 0
    /\ args.batch_size = 2
    /\ res.status = "ok"
    /\ res.value.batch_size = 2

(***************************************************************************)
(* Properties of move_model_to_device.                                     *)
(***************************************************************************)
MoveCalled == op = "move_model_to_device"

\* the call raised an error, returned no model and left the caller's model
Failed == res.status = "error" /\ held = args.model

\* C8 as stated: the call fails, returning no model, when the device is not
\* a device handle, when the requested count is below 1, and when an
\* accelerator device is asked for while no accelerator is present.
C8_AsStated ==
    MoveCalled =>
        /\ ~args.device.isdev => Failed
        /\ (args.num_gpus # None /\ Val(args.num_gpus) < 1) => Failed
        /\ (args.device.type = "cuda" /\ device_count = 0) => Failed

\* C8 amended: the call fails, returning no model, when the device is not a
\* device handle, when the requested count is below 1 and the device is an
\* accelerator device, and when an accelerator device is asked for while no
\* accelerator is present.
C8_FailsOnInvalidPlacement ==
    MoveCalled =>
        /\ ~args.device.isdev => Failed
        /\ ( /\ args.device.type = "cuda"
             /\ args.num_gpus # None
             /\ Val(args.num_gpus) < 1 ) => Failed
        /\ (args.device.type = "cuda" /\ device_count = 0) => Failed

C8_Witness ==
    /\ MoveCalled
    /\ args.device = CudaDevice
    /\ args.local_rank = -1
    /\ args.num_gpus = Some(0)
    /\ device_count > 0
    /\ res = Raise("ValueError")

\* C9: a call with a valid device and a local rank other than -1 returns
\* the model wrapped for distributed data-parallel execution on that rank
\* and moved to the device.
C9_DistributedWrap ==
    (MoveCalled /\ args.device.isdev /\ args.local_rank # -1) =>
        /\ res.status = "ok"
        /\ res.value.kind = "DistributedDataParallel"
        /\ res.value.device_ids = <<args.local_rank>>
        /\ Innermost(res.value) = To(Innermost(args.model), args.device)

\* C10: after any chain of successful placement calls the model carries at
\* most one parallel wrapper around the base model, and is what one call
\* with the last arguments returns for the base model.
C10_IdempotentRewrap ==
    /\ Depth(held) <= 1
    /\ (MoveCalled /\ res.status = "ok") =>
          /\ held = res.value
          /\ res = move_model_to_device(BaseModel, args.device, args.num_gpus,
                                        args.gpu_ids, args.local_rank,
                                        device_count)

C10_Witness ==
    /\ MoveCalled
    /\ calls >= 2
    /\ args.model.kind = "DataParallel"
    /\ res.status = "ok"
    /\ res.value.kind = "DataParallel"
    /\ res.value.module = To(BaseModel, CudaDevice)
    /\ res.value.device_ids # args.model.device_ids

(***************************************************************************)
(* Properties of pool.                                                     *)
(***************************************************************************)
PoolCalled == op = "pool"

KnownStrategy == args.pooling_strategy \in {"max", "mean", "cls"}

\* the rows of df that belong to the group (document d, layer l)
GroupIndices(df, d, l) ==
    {i \in 1..Len(df) : df[i].text_index = d /\ df[i].layer_index = l}

RECURSIVE SumOver(_, _, _)
SumOver(df, I, c) ==
    IF I = {} THEN 0
    ELSE LET i == CHOOSE x \in I : TRUE
         IN  df[i].values[c] + SumOver(df, I \ {i}, c)

RECURSIVE SumAbsOver(_, _, _)
SumAbsOver(df, I, c) ==
    IF I = {} THEN 0
    ELSE LET i == CHOOSE x \in I : TRUE
             v == df[i].values[c]
         IN  (IF v < 0 THEN 0 - v ELSE v) + SumAbsOver(df, I \ {i}, c)

\* Every sum of rows of I is exact in float32, in whatever order the rows
\* are added: the magnitudes total less than 2^24.
ExactSums(df, I, c) == SumAbsOver(df, I, c) < MaxSignificand

\* what max and cls ask of the rows I of df, component by component
Reduction(strategy, df, I) ==
    [c \in Components |->
        IF strategy = "max"
        THEN Float32Div(CHOOSE m \in {df[i].values[c] : i \in I} :
                            \A i \in I : df[i].values[c] <= m, 1)
        ELSE LET first == CHOOSE i \in I : \A j \in I : i <= j
             IN  Frac(df[first].values[c], 1)]

\* The pooled table has one record per (document, layer) group of df, and
\* the vector of a record is reduced from the rows of its group alone:
\* max is the float32 of the largest value, cls the first row of the group
\* in the order of df, mean the float32 of the exact average wherever the
\* sums of the group are exact in float32.
GroupedReduction ==
    (PoolCalled /\ KnownStrategy) =>
        /\ res.status = "ok"
        /\ \A i \in 1..Len(args.df) :
              \E g \in 1..Len(res.value) :
                 /\ res.value[g].text_index = args.df[i].text_index
                 /\ res.value[g].layer_index = args.df[i].layer_index
        /\ \A g \in 1..Len(res.value) :
              LET I == GroupIndices(args.df, res.value[g].text_index,
                                    res.value[g].layer_index)
              IN  /\ I # {}
                  /\ args.pooling_strategy # "mean" =>
                        res.value[g].values =
                            Reduction(args.pooling_strategy, args.df, I)
                  /\ args.pooling_strategy = "mean" =>
                        \A c \in Components :
                           ExactSums(args.df, I, c) =>
                              res.value[g].values[c] =
                                 Float32Div(SumOver(args.df, I, c),
                                            Cardinality(I))
        /\ \A g, h \in 1..Len(res.value) :
              ( /\ res.value[g].text_index = res.value[h].text_index
                /\ res.value[g].layer_index = res.value[h].layer_index )
                 => g = h

\* Re-pooling with another row order leaves the pooled table as it was for
\* max, and for mean leaves every component whose sums are exact in float32.
OrderStable ==
    /\ args.pooling_strategy = "max" => res' = res
    /\ args.pooling_strategy = "mean" =>
          /\ Len(res'.value) = Len(res.value)
          /\ \A g \in 1..Len(res.value) :
                /\ res'.value[g].text_index = res.value[g].text_index
                /\ res'.value[g].layer_index = res.value[g].layer_index
                /\ \A c \in Components :
                      ExactSums(args.df,
                                GroupIndices(args.df, res.value[g].text_index,
                                             res.value[g].layer_index), c)
                         => res'.value[g].values[c] = res.value[g].values[c]

\* C6 as stated: for each of max, mean and cls, pooling the rows again in
\* another order within a group gives the same pooled table.
C6_AsStated ==
    [][PoolReordered => res' = res]_vars

\* C6 amended: pool returns one record per (document, layer) group, reduced
\* from the rows of that group alone (max: the float32 maximum, cls: the row
\* that comes first in the input, mean: the float32 average, the rows added
\* in input order); the pooled vector is the same for every order of the
\* rows within a group for max, and for mean where the sums of the group
\* are exact in float32; not for cls, nor for mean where sums are rounded.
C6_GroupedOrderStableMaxExactMean ==
    /\ []GroupedReduction
    /\ [][PoolReordered => OrderStable]_vars

C6_Witness ==
    /\ PoolCalled
    /\ args.pooling_strategy = "mean"
    /\ Len(args.df) = 3
    /\ args.df[3].text_index = args.df[1].text_index
    /\ args.df[3].layer_index = args.df[1].layer_index
    /\ args.df[2].text_index = args.df[1].text_index
    /\ args.df[2].layer_index # args.df[1].layer_index
    /\ args.df[1].values[2] = -1
    /\ args.df[2].values[2] = 2
    /\ args.df[3].values[2] = 2
    /\ res.status = "ok"
    /\ Len(res.value) = 2
    /\ \E g \in 1..2 :
          /\ res.value[g].layer_index = args.df[1].layer_index
          /\ res.value[g].values[2] = [num |-> 1, den |-> 2]

\* Rounding at work: the float32 mean of 2^24, 1 and -2^24, added in that
\* order, is 0 and not the float32 of 1/3.
MeanRoundedSeen ==
    /\ PoolCalled
    /\ args.pooling_strategy = "mean"
    /\ Len(args.df) = 3
    /\ Len(res.value) = 1
    /\ args.df[1].values[1] = MaxSignificand
    /\ args.df[2].values[1] = 1
    /\ args.df[3].values[1] = 0 - MaxSignificand
    /\ res.value[1].values[1] = [num |-> 0, den |-> 1]

\* C7: with a strategy other than max, mean and cls the call ends in an
\* error and returns no pooled table.
C7_UnknownStrategyRaises ==
    (PoolCalled /\ ~KnownStrategy) => res.status = "error"

C7_Witness ==
    /\ PoolCalled
    /\ args.pooling_strategy = "sum"
    /\ Len(args.df) = 2
    /\ res = Raise("NameError")

====
